---- MODULE Spec2Model ----
(***************************************************************************)
(* GroupStore (src/src/stores/GroupStore.js): an in-memory cache of one    *)
(* group's summary, rooms, members and invited members, refreshed from a   *)
(* backend client and observed through "update" / "error" events.          *)
(*                                                                         *)
(* The state is the store's fields, the "update" listener list of the      *)
(* EventEmitter it extends, the backend requests in flight and the promise *)
(* chains of the mutation methods that have not settled yet.  One action   *)
(* is one run-to-completion piece of JavaScript: a public method call, or  *)
(* the reaction (then / catch handler) to one backend response.  `trace'   *)
(* holds what the last such piece did, in the order in which it did it.    *)
(* Listeners are observers: they read the accessors and do not throw.      *)
(*                                                                         *)
(* SpecObserve is the store with listeners coming and going, SpecMutate    *)
(* the store with the mutation methods being called; the backend's answers *)
(* to the get-requests are part of both.  Spec is the two together.        *)
(* SpecRace watches the order in which requests for one slice are issued   *)
(* and answered, and SpecLive is the store with a backend that answers.    *)
(***************************************************************************)
EXTENDS Integers, Sequences, FiniteSets, Bags, TLC

VARIABLES
    _summary,         \* this._summary
    _rooms,           \* this._rooms
    _members,         \* this._members
    _invitedMembers,  \* this._invitedMembers
    _ready,           \* this._ready, as the set of keys it maps to true
    listeners,        \* the emitter's listener array for 'update'
    inflight,         \* backend get-requests issued and not yet answered
    mutations,        \* unsettled promise chains returned by the mutation methods
    fetched,          \* history: per state key, the last successfully fetched payload
    unregistered,     \* history: callbacks unregistered and not registered since
    overtaken,        \* history, kept when the order of issue is watched: per
                      \* get-request in flight, in the order of issue, the answer that
                      \* a request issued after it has got already, if any
    trace             \* what the last step did, in program order

vars == <<_summary, _rooms, _members, _invitedMembers, _ready, listeners,
          inflight, mutations, fetched, unregistered, overtaken, trace>>

----------------------------------------------------------------------------
(* Bounds of the model *)

\* get-requests in flight, beyond which registerListener is not called
MaxInFlight == 5

\* get-requests in flight, beyond which a mutation's refresh waits
MaxRefreshInFlight == 3

\* registrations in the listener array
MaxListeners == 2

\* mutation calls whose backend call is unanswered
MaxMutations == 1

----------------------------------------------------------------------------
(* Values *)

GroupId == "+test:example.org"
UserId == "@me:example.org"
RoomId == "!room:example.org"

\* static STATE_KEY
STATE_KEY ==
    [GroupMembers |-> "GroupMembers", GroupInvitedMembers |-> "GroupInvitedMembers",
     Summary |-> "Summary", GroupRooms |-> "GroupRooms"]

StateKeys ==
    {STATE_KEY.GroupMembers, STATE_KEY.GroupInvitedMembers, STATE_KEY.Summary,
     STATE_KEY.GroupRooms}

\* the backend client's get-requests the store issues
FetchApis == {"getGroupSummary", "getGroupRooms", "getGroupUsers", "getGroupInvitedUsers"}

\* callbacks handed to registerListener / unregisterListener
Callbacks == {"f", "g"}

\* responses of getGroupSummary: with and without a user record
SummaryResponses ==
    { [user |-> [is_publicised |-> TRUE, is_privileged |-> FALSE]],
      [profile |-> [name |-> "Test"]] }

\* responses of getGroupRooms, getGroupUsers and getGroupInvitedUsers
RoomResponses ==
    { [chunk |-> <<>>],
      [chunk |-> <<[room_id |-> "!a"], [room_id |-> "!b"]>>] }

UserResponses ==
    { [chunk |-> <<[user_id |-> "@a"], [user_id |-> "@b"]>>] }

\* failures of a backend request: authorization denied, and another status
Errors == { [httpStatus |-> 403], [httpStatus |-> 500] }

----------------------------------------------------------------------------
(* Collaborators *)

groupMemberFromApiObject(apiObject) == [userId |-> apiObject.user_id]

groupRoomFromApiObject(apiObject) == [roomId |-> apiObject.room_id]

\* chunk.map((apiRoom) => groupRoomFromApiObject(apiRoom))
MapRooms(chunk) == [i \in 1..Len(chunk) |-> groupRoomFromApiObject(chunk[i])]

\* chunk.map((apiMember) => groupMemberFromApiObject(apiMember))
MapMembers(chunk) == [i \in 1..Len(chunk) |-> groupMemberFromApiObject(chunk[i])]

\* EventEmitter.removeListener: drops the most recently added instance of fn
RECURSIVE removeListener(_, _)
removeListener(ls, fn) ==
    IF ls = <<>> THEN <<>>
    ELSE IF ls[Len(ls)] = fn THEN SubSeq(ls, 1, Len(ls) - 1)
    ELSE Append(removeListener(SubSeq(ls, 1, Len(ls) - 1), fn), ls[Len(ls)])

----------------------------------------------------------------------------
(* The store's fields as one record, so that a handler is a sequence of     *)
(* field assignments                                                       *)

Store ==
    [_summary |-> _summary, _rooms |-> _rooms, _members |-> _members,
     _invitedMembers |-> _invitedMembers, _ready |-> _ready]

SetStore(st) ==
    /\ _summary' = st._summary
    /\ _rooms' = st._rooms
    /\ _members' = st._members
    /\ _invitedMembers' = st._invitedMembers
    /\ _ready' = st._ready

\* the accessors, read from store st
isStateReadyIn(st, id) == id \in st._ready

Accessors(st) ==
    [getSummary |-> st._summary,
     getGroupRooms |-> st._rooms,
     getGroupMembers |-> st._members,
     getGroupInvitedMembers |-> st._invitedMembers,
     isStateReady |-> {id \in StateKeys : isStateReadyIn(st, id)}]

isStateReady(id) == isStateReadyIn(Store, id)

getSummary == _summary

getGroupRooms == _rooms

getGroupMembers == _members

getGroupInvitedMembers == _invitedMembers

\* what getGroupPublicity and isUserPrivileged return is a tuple: empty for null, and
\* otherwise holding the field's value
null == <<>>

\* this._summary.user is truthy: the responses of the model that have a user hold a record
HasUser(summary) == "user" \in DOMAIN summary

\* faulty variant: false, not null, without a user record
getGroupPublicityDefaultsFalse ==
    IF HasUser(_summary) THEN <<_summary.user.is_publicised>> ELSE <<FALSE>>

getGroupPublicity ==
    IF HasUser(_summary) THEN <<_summary.user.is_publicised>> ELSE null

isUserPrivileged ==
    IF HasUser(_summary) THEN <<_summary.user.is_privileged>> ELSE null

----------------------------------------------------------------------------
(* Events of a step *)

\* this.emit('update'): every listener of ls is called, in order, and reads st
EmitUpdate(ls, st) == [e |-> "emit", type |-> "update", to |-> ls, seen |-> Accessors(st)]

\* this.emit('error', err)
EmitError(err) == [e |-> "emit", type |-> "error", err |-> err]

\* this._matrixClient.<api>(this.groupId)
Request(api) == [e |-> "request", api |-> api, groupId |-> GroupId]

_notifyListeners(ls, st) == <<EmitUpdate(ls, st)>>

\* the requests the three fetch methods issue, in order
_fetchSummary == <<Request("getGroupSummary")>>

_fetchRooms == <<Request("getGroupRooms")>>

\* faulty variant: the invited members are not requested
_fetchMembersUsersOnly == <<Request("getGroupUsers")>>

_fetchMembers == <<Request("getGroupUsers"), Request("getGroupInvitedUsers")>>

\* the requests among the events evs, as a sequence of api names
RECURSIVE RequestsOf(_)
RequestsOf(evs) ==
    IF evs = <<>> THEN <<>>
    ELSE IF evs[1].e = "request" THEN <<evs[1].api>> \o RequestsOf(Tail(evs))
    ELSE RequestsOf(Tail(evs))

Count(apis, api) == Cardinality({i \in 1..Len(apis) : apis[i] = api})

Pending == inflight["getGroupSummary"] + inflight["getGroupRooms"]
            + inflight["getGroupUsers"] + inflight["getGroupInvitedUsers"]

\* room for the requests of evs
CanIssue(evs) == Pending + Len(RequestsOf(evs)) <= MaxInFlight

Issue(evs) ==
    /\ inflight' = [api \in FetchApis |-> inflight[api] + Count(RequestsOf(evs), api)]
    /\ overtaken' =
           IF overtaken.watched
           THEN [overtaken EXCEPT !.by = [api \in FetchApis |->
                     @[api] \o [i \in 1..Count(RequestsOf(evs), api) |-> <<>>]]]
           ELSE overtaken

Answer(api) ==
    /\ inflight[api] > 0
    /\ inflight' = [inflight EXCEPT ![api] = @ - 1]

\* which of the requests of api in flight an answer can be to, by order of issue
\* (0 when the order is not watched)
Positions(api) == IF overtaken.watched THEN 1..Len(overtaken.by[api]) ELSE {0}

\* the answer by which the p-th request of api in flight has been overtaken, if any
OvertakenBy(api, p) == IF p = 0 THEN <<>> ELSE overtaken.by[api][p]

\* the requests s (in the order of issue) without the p-th
Without(s, p) ==
    IF p = 0 THEN s ELSE SubSeq(s, 1, p - 1) \o SubSeq(s, p + 1, Len(s))

\* the p-th of the requests s has been answered with result: unless a request issued
\* after it was answered before it, it is now the last issued of the requests answered
Overtake(s, p, result) ==
    IF p = 0 THEN s
    ELSE [i \in 1..(Len(s) - 1) |->
             IF i < p /\ s[p] = <<>> THEN <<result>> ELSE Without(s, p)[i]]

----------------------------------------------------------------------------
(* Construction.  The groupId argument is a tuple: empty when the argument *)
(* is absent, and otherwise holding the string that was passed.            *)

GroupIdArgs == {<<>>, <<"">>, <<GroupId>>}

\* !groupId
Falsy(arg) == arg = <<>> \/ arg[1] = ""

\* the fields the constructor assigns
NewStore ==
    [_summary |-> <<>>, _rooms |-> <<>>, _members |-> <<>>, _invitedMembers |-> <<>>,
     _ready |-> {}]

\* faulty variant: only an absent groupId is refused
constructorAcceptsEmpty(arg) ==
    IF arg = <<>>
    THEN [threw |-> TRUE, st |-> NewStore, evs |-> <<>>]
    ELSE [threw |-> FALSE, st |-> NewStore, evs |-> <<>>]

\* new GroupStore(matrixClient, groupId): whether it threw, the fields of the store
\* it made (of no meaning when it threw: no store exists) and the events it emitted
constructor(arg) ==
    IF Falsy(arg)
    THEN [threw |-> TRUE, st |-> NewStore, evs |-> <<>>]
    ELSE [threw |-> FALSE, st |-> NewStore, evs |-> <<>>]

\* the state a construction leaves, with the order of issue watched or not
Construct(watched) ==
    \E arg \in GroupIdArgs :
        LET r == constructor(arg) IN
        /\ _summary = r.st._summary
        /\ _rooms = r.st._rooms
        /\ _members = r.st._members
        /\ _invitedMembers = r.st._invitedMembers
        /\ _ready = r.st._ready
        /\ listeners = <<>>
        /\ inflight = [api \in FetchApis |-> Count(RequestsOf(r.evs), api)]
        /\ overtaken = [watched |-> watched, by |-> [api \in FetchApis |-> <<>>]]
        /\ mutations = EmptyBag
        /\ fetched = [k \in StateKeys |-> <<>>]
        /\ unregistered = {}
        /\ trace = <<[e |-> "constructor", groupId |-> arg, threw |-> r.threw]>> \o r.evs

Init == Construct(FALSE)

InitWatched == Construct(TRUE)

\* there is a store to call: the construction did not throw
Constructed == ~(trace[1].e = "constructor" /\ trace[1].threw)

----------------------------------------------------------------------------
(* The then / catch handlers of the fetch methods.  Each takes the store   *)
(* and the listener array as they are when it runs and gives the store it  *)
(* leaves and the events it emits.                                         *)

\* faulty variant: the readiness flag is left unset
_fetchSummaryThenNotReady(st, ls, resp) ==
    LET st1 == [st EXCEPT !._summary = resp]
    IN  [st |-> st1, evs |-> _notifyListeners(ls, st1)]

\* _fetchSummary, .then
_fetchSummaryThen(st, ls, resp) ==
    LET st1 == [st EXCEPT !._summary = resp]
        st2 == [st1 EXCEPT !._ready = @ \cup {STATE_KEY.Summary}]
    IN  [st |-> st2, evs |-> _notifyListeners(ls, st2)]

\* faulty variant: a failure resets the readiness flag
_fetchSummaryCatchResets(st, ls, err) ==
    [st |-> [st EXCEPT !._ready = @ \ {STATE_KEY.Summary}], evs |-> <<EmitError(err)>>]

\* _fetchSummary, .catch
_fetchSummaryCatch(st, ls, err) == [st |-> st, evs |-> <<EmitError(err)>>]

\* faulty variant: the listeners are notified before the readiness flag is set
_fetchRoomsThenNotifiesFirst(st, ls, resp) ==
    LET st1 == [st EXCEPT !._rooms = MapRooms(resp.chunk)]
        st2 == [st1 EXCEPT !._ready = @ \cup {STATE_KEY.GroupRooms}]
    IN  [st |-> st2, evs |-> _notifyListeners(ls, st1)]

\* _fetchRooms, .then
_fetchRoomsThen(st, ls, resp) ==
    LET st1 == [st EXCEPT !._rooms = MapRooms(resp.chunk)]
        st2 == [st1 EXCEPT !._ready = @ \cup {STATE_KEY.GroupRooms}]
    IN  [st |-> st2, evs |-> _notifyListeners(ls, st2)]

\* faulty variant: a failure clears the cached rooms
_fetchRoomsCatchClears(st, ls, err) ==
    [st |-> [st EXCEPT !._rooms = <<>>], evs |-> <<EmitError(err)>>]

\* _fetchRooms, .catch
_fetchRoomsCatch(st, ls, err) == [st |-> st, evs |-> <<EmitError(err)>>]

\* faulty variant: the members' answer marks the invited members ready as well
_fetchMembersThenMarksInvited(st, ls, result) ==
    LET st1 == [st EXCEPT !._members = MapMembers(result.chunk)]
        st2 == [st1 EXCEPT !._ready = @ \cup {STATE_KEY.GroupMembers,
                                              STATE_KEY.GroupInvitedMembers}]
    IN  [st |-> st2, evs |-> _notifyListeners(ls, st2)]

\* _fetchMembers, getGroupUsers .then
_fetchMembersThen(st, ls, result) ==
    LET st1 == [st EXCEPT !._members = MapMembers(result.chunk)]
        st2 == [st1 EXCEPT !._ready = @ \cup {STATE_KEY.GroupMembers}]
    IN  [st |-> st2, evs |-> _notifyListeners(ls, st2)]

\* _fetchMembers, getGroupUsers .catch
_fetchMembersCatch(st, ls, err) == [st |-> st, evs |-> <<EmitError(err)>>]

\* faulty variant: the invited members are cached and the flag is left unset
_fetchInvitedMembersThenNotReady(st, ls, result) ==
    LET st1 == [st EXCEPT !._invitedMembers = MapMembers(result.chunk)]
    IN  [st |-> st1, evs |-> _notifyListeners(ls, st1)]

\* _fetchMembers, getGroupInvitedUsers .then
_fetchInvitedMembersThen(st, ls, result) ==
    LET st1 == [st EXCEPT !._invitedMembers = MapMembers(result.chunk)]
        st2 == [st1 EXCEPT !._ready = @ \cup {STATE_KEY.GroupInvitedMembers}]
    IN  [st |-> st2, evs |-> _notifyListeners(ls, st2)]

\* faulty variant: status 403 is reported like any other failure
_fetchInvitedMembersCatchReports(st, ls, err) == [st |-> st, evs |-> <<EmitError(err)>>]

\* _fetchMembers, getGroupInvitedUsers .catch
_fetchInvitedMembersCatch(st, ls, err) ==
    IF err.httpStatus = 403
    THEN [st |-> st, evs |-> <<>>]
    ELSE [st |-> st, evs |-> <<EmitError(err)>>]

\* the backend answers a get-request with a value: its then handler runs
Resolved(api, result, key, r) ==
    /\ Answer(api)
    /\ SetStore(r.st)
    /\ fetched' = [fetched EXCEPT ![key] = <<result>>]
    /\ \E p \in Positions(api) :
           /\ overtaken' = [overtaken EXCEPT !.by[api] = Overtake(@, p, result)]
           /\ trace' = <<[e |-> "resolved", api |-> api, key |-> key, result |-> result,
                          overtaken |-> OvertakenBy(api, p)]>> \o r.evs
    /\ UNCHANGED <<listeners, mutations, unregistered>>

\* the backend fails a get-request: its catch handler runs
Rejected(api, err, key, r) ==
    /\ Answer(api)
    /\ SetStore(r.st)
    /\ trace' = <<[e |-> "rejected", api |-> api, key |-> key, err |-> err]>> \o r.evs
    /\ \E p \in Positions(api) :
           overtaken' = [overtaken EXCEPT !.by[api] = Without(@, p)]
    /\ UNCHANGED <<listeners, mutations, fetched, unregistered>>

getGroupSummaryResolved ==
    \E resp \in SummaryResponses :
        Resolved("getGroupSummary", resp, STATE_KEY.Summary,
                 _fetchSummaryThen(Store, listeners, resp))

getGroupSummaryRejected ==
    \E err \in Errors :
        Rejected("getGroupSummary", err, STATE_KEY.Summary,
                 _fetchSummaryCatch(Store, listeners, err))

getGroupRoomsResolved ==
    \E resp \in RoomResponses :
        Resolved("getGroupRooms", resp, STATE_KEY.GroupRooms,
                 _fetchRoomsThen(Store, listeners, resp))

getGroupRoomsRejected ==
    \E err \in Errors :
        Rejected("getGroupRooms", err, STATE_KEY.GroupRooms,
                 _fetchRoomsCatch(Store, listeners, err))

getGroupUsersResolved ==
    \E result \in UserResponses :
        Resolved("getGroupUsers", result, STATE_KEY.GroupMembers,
                 _fetchMembersThen(Store, listeners, result))

getGroupUsersRejected ==
    \E err \in Errors :
        Rejected("getGroupUsers", err, STATE_KEY.GroupMembers,
                 _fetchMembersCatch(Store, listeners, err))

getGroupInvitedUsersResolved ==
    \E result \in UserResponses :
        Resolved("getGroupInvitedUsers", result, STATE_KEY.GroupInvitedMembers,
                 _fetchInvitedMembersThen(Store, listeners, result))

getGroupInvitedUsersRejected ==
    \E err \in Errors :
        Rejected("getGroupInvitedUsers", err, STATE_KEY.GroupInvitedMembers,
                 _fetchInvitedMembersCatch(Store, listeners, err))

----------------------------------------------------------------------------
(* Listener registration *)

\* faulty variant: the fetches start before the initial update is emitted
registerListenerRunFetchesFirst(st, ls, fn) ==
    LET ls1 == Append(ls, fn)
    IN  [ls |-> ls1,
         evs |-> _fetchSummary \o _fetchRooms \o _fetchMembers \o <<EmitUpdate(ls1, st)>>]

\* faulty variant: nothing is fetched once every slice is ready
registerListenerRunSkipsReady(st, ls, fn) ==
    LET ls1 == Append(ls, fn)
    IN  [ls |-> ls1,
         evs |-> <<EmitUpdate(ls1, st)>>
                 \o (IF st._ready = StateKeys
                     THEN <<>>
                     ELSE _fetchSummary \o _fetchRooms \o _fetchMembers)]

\* registerListener(fn): the listener array it leaves and the events it emits
registerListenerRun(st, ls, fn) ==
    LET ls1 == Append(ls, fn)
    IN  [ls |-> ls1,
         evs |-> <<EmitUpdate(ls1, st)>> \o _fetchSummary \o _fetchRooms \o _fetchMembers]

\* faulty variant: every registration of fn is dropped
unregisterListenerRunAll(ls, fn) == SelectSeq(ls, LAMBDA c : c # fn)

\* unregisterListener(fn): the listener array it leaves
unregisterListenerRun(ls, fn) == removeListener(ls, fn)

registerListener ==
    \E fn \in Callbacks :
        LET r == registerListenerRun(Store, listeners, fn) IN
        /\ Constructed
        /\ Len(listeners) < MaxListeners
        /\ CanIssue(r.evs)
        /\ listeners' = r.ls
        /\ Issue(r.evs)
        /\ trace' = <<[e |-> "registerListener", fn |-> fn]>> \o r.evs
        /\ unregistered' = unregistered \ {fn}
        /\ UNCHANGED <<_summary, _rooms, _members, _invitedMembers, _ready,
                       mutations, fetched>>

unregisterListener ==
    \E fn \in Callbacks :
        /\ Constructed
        /\ listeners' = unregisterListenerRun(listeners, fn)
        /\ trace' = <<[e |-> "unregisterListener", fn |-> fn]>>
        /\ unregistered' = unregistered \cup {fn}
        /\ UNCHANGED <<_summary, _rooms, _members, _invitedMembers, _ready,
                       inflight, overtaken, mutations, fetched>>

----------------------------------------------------------------------------
(* Mutation methods.  Each calls the backend and returns the promise       *)
(* call.then(h1)[.then(h2)].  An unsettled chain is a record of the method *)
(* (op), the then-handlers it will run (thens) and what it has done so far *)
(* (done).  The handlers of one chain run in consecutive microtasks once   *)
(* the backend call succeeds; every backend answer arrives in a task of    *)
(* its own, so no other reaction of the store runs between them.           *)

\* this._matrixClient.<op>(this.groupId, ...)
Call(op, args) == [e |-> "call", api |-> op, args |-> args]

\* the promise a mutation method returned settles
Settle(op, outcome, done) == [e |-> "settle", op |-> op, outcome |-> outcome, done |-> done]

\* FlairStore.invalidatePublicisedGroups(this._matrixClient.credentials.userId)
invalidatePublicisedGroups == <<[e |-> "invalidatePublicisedGroups", userId |-> UserId]>>

\* the events of running then-handler h
Handler(h) ==
    CASE h = "_fetchSummary" -> _fetchSummary
      [] h = "_fetchRooms" -> _fetchRooms
      [] h = "_fetchMembers" -> _fetchMembers
      [] h = "invalidatePublicisedGroups" -> invalidatePublicisedGroups

\* the backend call of a chain succeeded: its then-handlers run, in order
RECURSIVE OnFulfilled(_)
OnFulfilled(thens) ==
    IF thens = <<>> THEN <<>> ELSE Handler(Head(thens)) \o OnFulfilled(Tail(thens))

\* faulty variant: the handlers run on failure too
OnRejectedRefreshes(thens, err) == OnFulfilled(thens)

\* the backend call of a chain failed: no handler of the chain takes a rejection
OnRejected(thens, err) == <<>>

\* room for the requests a refresh issues
CanRefresh(evs) == Pending + Len(RequestsOf(evs)) <= MaxRefreshInFlight

Invoke(op, args, thens) ==
    /\ Constructed
    /\ BagCardinality(mutations) < MaxMutations
    /\ mutations' = mutations (+) SetToBag({[op |-> op, thens |-> thens,
                                             done |-> <<Call(op, args)>>]})
    /\ trace' = <<[e |-> "invoke", op |-> op], Call(op, args)>>
    /\ UNCHANGED <<_summary, _rooms, _members, _invitedMembers, _ready, listeners,
                   inflight, overtaken, fetched, unregistered>>

addRoomToGroup ==
    Invoke("addRoomToGroup", [groupId |-> GroupId, roomId |-> RoomId, isPublic |-> FALSE],
           <<"_fetchRooms">>)

updateGroupRoomVisibility ==
    Invoke("updateGroupRoomVisibility",
           [groupId |-> GroupId, roomId |-> RoomId, isPublic |-> TRUE],
           <<"_fetchRooms">>)

\* faulty variant: rooms are refreshed before the summary
removeRoomFromGroupRoomsFirst ==
    Invoke("removeRoomFromGroup", [groupId |-> GroupId, roomId |-> RoomId],
           <<"_fetchRooms", "_fetchSummary">>)

removeRoomFromGroup ==
    Invoke("removeRoomFromGroup", [groupId |-> GroupId, roomId |-> RoomId],
           <<"_fetchSummary", "_fetchRooms">>)

inviteUserToGroup ==
    Invoke("inviteUserToGroup", [groupId |-> GroupId, userId |-> "@a"],
           <<"_fetchMembers">>)

\* faulty variant: the members are refreshed before the rooms
acceptGroupInviteMembersFirst ==
    Invoke("acceptGroupInvite", [groupId |-> GroupId],
           <<"_fetchMembers", "_fetchRooms">>)

acceptGroupInvite ==
    Invoke("acceptGroupInvite", [groupId |-> GroupId],
           <<"_fetchRooms", "_fetchMembers">>)

addRoomToGroupSummary ==
    Invoke("addRoomToGroupSummary",
           [groupId |-> GroupId, roomId |-> RoomId, categoryId |-> "cat"],
           <<"_fetchSummary">>)

addUserToGroupSummary ==
    Invoke("addUserToGroupSummary",
           [groupId |-> GroupId, userId |-> "@a", roleId |-> "role"],
           <<"_fetchSummary">>)

removeRoomFromGroupSummary ==
    Invoke("removeRoomFromGroupSummary", [groupId |-> GroupId, roomId |-> RoomId],
           <<"_fetchSummary">>)

removeUserFromGroupSummary ==
    Invoke("removeUserFromGroupSummary", [groupId |-> GroupId, userId |-> "@a"],
           <<"_fetchSummary">>)

\* faulty variant: the summary is refreshed before the flair cache is invalidated
setGroupPublicityFetchesFirst ==
    Invoke("setGroupPublicity", [groupId |-> GroupId, isPublished |-> TRUE],
           <<"_fetchSummary", "invalidatePublicisedGroups">>)

setGroupPublicity ==
    Invoke("setGroupPublicity", [groupId |-> GroupId, isPublished |-> TRUE],
           <<"invalidatePublicisedGroups", "_fetchSummary">>)

\* the backend answers the call of chain m: the chain emits evs and settles
Settled(m, trigger, evs, outcome) ==
    /\ CanRefresh(evs)
    /\ Issue(evs)
    /\ mutations' = mutations (-) SetToBag({m})
    /\ trace' = <<trigger>> \o evs \o <<Settle(m.op, outcome, m.done \o evs)>>
    /\ UNCHANGED <<_summary, _rooms, _members, _invitedMembers, _ready, listeners,
                   fetched, unregistered>>

\* faulty variant: the chain waits for the answers to the requests it issued
MutationResolvedAwaitsRefresh ==
    \E m \in BagToSet(mutations) :
        LET evs == OnFulfilled(m.thens) IN
        /\ m.thens # <<>>
        /\ CanRefresh(evs)
        /\ Issue(evs)
        /\ mutations' = (mutations (-) SetToBag({m}))
                          (+) SetToBag({[m EXCEPT !.thens = <<>>, !.done = @ \o evs]})
        /\ trace' = <<[e |-> "resolved", api |-> m.op]>> \o evs
        /\ UNCHANGED <<_summary, _rooms, _members, _invitedMembers, _ready, listeners,
                       fetched, unregistered>>

\* the backend call of a mutation succeeds
MutationResolved ==
    \E m \in BagToSet(mutations) :
        Settled(m, [e |-> "resolved", api |-> m.op], OnFulfilled(m.thens), "fulfilled")

\* the backend call of a mutation fails
MutationRejected ==
    \E m \in BagToSet(mutations), err \in {[httpStatus |-> 500]} :
        Settled(m, [e |-> "rejected", api |-> m.op, err |-> err],
                OnRejected(m.thens, err), "rejected")

----------------------------------------------------------------------------
(* Specifications.  The backend's answers are part of every one of them.   *)

\* a reaction to a backend answer to a get-request
FetchAnswered ==
    \/ getGroupSummaryResolved
    \/ getGroupSummaryRejected
    \/ getGroupRoomsResolved
    \/ getGroupRoomsRejected
    \/ getGroupUsersResolved
    \/ getGroupUsersRejected
    \/ getGroupInvitedUsersResolved
    \/ getGroupInvitedUsersRejected

\* a call of a mutation method, or a step of the promise chain one returned
Mutation ==
    \/ addRoomToGroup
    \/ updateGroupRoomVisibility
    \/ removeRoomFromGroup
    \/ inviteUserToGroup
    \/ acceptGroupInvite
    \/ addRoomToGroupSummary
    \/ addUserToGroupSummary
    \/ removeRoomFromGroupSummary
    \/ removeUserFromGroupSummary
    \/ setGroupPublicity
    \/ MutationResolved
    \/ MutationRejected

\* the store under observation: listeners come and go, fetches are answered
NextObserve ==
    \/ registerListener
    \/ unregisterListener
    \/ FetchAnswered

SpecObserve == Init /\ [][NextObserve]_vars

\* the store under mutation: mutation methods are called, fetches are answered
NextMutate ==
    \/ Mutation
    \/ FetchAnswered

SpecMutate == Init /\ [][NextMutate]_vars

\* the store with requests for the rooms racing: a listener's and a mutation's
NextRace ==
    \/ registerListener
    \/ addRoomToGroup
    \/ MutationResolved
    \/ MutationRejected
    \/ FetchAnswered

SpecRace == InitWatched /\ [][NextRace]_vars

\* the store with a backend that answers every request it answers with a value
NextLive ==
    \/ registerListener
    \/ getGroupSummaryResolved
    \/ getGroupRoomsResolved
    \/ getGroupUsersResolved
    \/ getGroupInvitedUsersResolved

\* the backend answers the requests for the rooms, the members and the invited
\* members in the end; the request for the summary it may leave unanswered
SpecLive ==
    /\ Init
    /\ [][NextLive]_vars
    /\ WF_vars(getGroupRoomsResolved)
    /\ WF_vars(getGroupUsersResolved)
    /\ WF_vars(getGroupInvitedUsersResolved)

\* the whole store
Next ==
    \/ registerListener
    \/ unregisterListener
    \/ Mutation
    \/ FetchAnswered

Spec == Init /\ [][Next]_vars

----------------------------------------------------------------------------
(* Vocabulary of the properties *)

MutationOps ==
    {"addRoomToGroup", "updateGroupRoomVisibility", "removeRoomFromGroup",
     "inviteUserToGroup", "acceptGroupInvite", "addRoomToGroupSummary",
     "addUserToGroupSummary", "removeRoomFromGroupSummary",
     "removeUserFromGroupSummary", "setGroupPublicity"}

\* the cached slice of state key k
Cached(k) ==
    CASE k = STATE_KEY.Summary -> getSummary
      [] k = STATE_KEY.GroupRooms -> getGroupRooms
      [] k = STATE_KEY.GroupMembers -> getGroupMembers
      [] k = STATE_KEY.GroupInvitedMembers -> getGroupInvitedMembers

\* what a slice holds once the backend's answer `result' has been stored
Payload(k, result) ==
    CASE k = STATE_KEY.Summary -> result
      [] k = STATE_KEY.GroupRooms -> MapRooms(result.chunk)
      [] k = STATE_KEY.GroupMembers -> MapMembers(result.chunk)
      [] k = STATE_KEY.GroupInvitedMembers -> MapMembers(result.chunk)

\* the number of emissions of event `type' among the events evs
Emits(evs, type) ==
    Cardinality({i \in 1..Len(evs) : evs[i].e = "emit" /\ evs[i].type = type})

\* the last step was the reaction to the backend's answer (how) to request api
Answered(tr, how, api) == tr[1].e = how /\ tr[1].api = api

\* the last step was a call of method op
Invoked(tr, op) == tr[1].e = "invoke" /\ tr[1].op = op

StoreUnchanged ==
    UNCHANGED <<_summary, _rooms, _members, _invitedMembers, _ready>>

----------------------------------------------------------------------------
(* C1: in every reachable state each cached slice holds its initial empty  *)
(* value or the (projected) payload of the most recent successfully        *)
(* completed fetch of that slice; a failed fetch leaves it as it was.      *)
C1_CacheIsLastFetched ==
    \A k \in StateKeys :
        Cached(k) = IF fetched[k] = <<>> THEN <<>> ELSE Payload(k, fetched[k][1])

\* a rooms fetch has just failed while fetched rooms are cached
C1_Witness ==
    /\ Answered(trace, "rejected", "getGroupRooms")
    /\ getGroupRooms # <<>>
    /\ fetched[STATE_KEY.GroupRooms] # <<>>

(* C2: isStateReady(key) is true exactly when a fetch of that slice has    *)
(* completed successfully since construction, and no step, a failed fetch  *)
(* or a failed mutation included, makes it false again.                    *)
C2_ReadyIffFetched ==
    /\ [](\A k \in StateKeys : isStateReady(k) <=> fetched[k] # <<>>)
    /\ [][\A k \in StateKeys : isStateReady(k) => isStateReady(k)']_vars

\* a mutation and a summary fetch have failed after the summary became ready
C2_Witness ==
    /\ trace[1].e = "rejected"
    /\ trace[1].api \in MutationOps
    /\ isStateReady(STATE_KEY.Summary)
    /\ ~isStateReady(STATE_KEY.GroupRooms)

(* C3: a successful summary fetch leaves isStateReady('Summary') true and  *)
(* getSummary() equal to the fetched value; a failed summary fetch leaves  *)
(* the cached summary and the readiness flags unchanged, emits exactly the *)
(* "error" event with the failure, and settles no promise of a caller.     *)
C3_SummaryFetch ==
    [][ /\ Answered(trace', "resolved", "getGroupSummary") =>
            /\ isStateReady(STATE_KEY.Summary)'
            /\ getSummary' = trace'[1].result
        /\ Answered(trace', "rejected", "getGroupSummary") =>
            /\ getSummary' = getSummary
            /\ _ready' = _ready
            /\ Tail(trace') = <<EmitError(trace'[1].err)>>
            /\ mutations' = mutations
      ]_vars

\* a summary fetch failed after one succeeded, while a caller awaits a mutation
C3_Witness ==
    /\ Answered(trace, "rejected", "getGroupSummary")
    /\ isStateReady(STATE_KEY.Summary)
    /\ "user" \in DOMAIN getSummary
    /\ mutations # EmptyBag

(* C4: a failure of the invited-members request leaves the invited-members *)
(* cache and the readiness flags unchanged and emits no "update"; with     *)
(* status 403 it emits nothing at all, with any other status exactly one   *)
(* "error" event.                                                          *)
C4_InvitedMembersFailure ==
    [][ Answered(trace', "rejected", "getGroupInvitedUsers") =>
            /\ getGroupInvitedMembers' = getGroupInvitedMembers
            /\ _ready' = _ready
            /\ Emits(Tail(trace'), "update") = 0
            /\ IF trace'[1].err.httpStatus = 403
               THEN Tail(trace') = <<>>
               ELSE Tail(trace') = <<EmitError(trace'[1].err)>>
      ]_vars

\* the invited-members request failed with 403 while a listener is registered and
\* invited members are cached
C4_Witness ==
    /\ Answered(trace, "rejected", "getGroupInvitedUsers")
    /\ trace[1].err.httpStatus = 403
    /\ listeners # <<>>
    /\ isStateReady(STATE_KEY.GroupInvitedMembers)

(* C5: when the backend call of any mutation method fails, the returned    *)
(* promise is rejected, nothing is emitted, no cache slice or readiness    *)
(* flag changes and no fetch request is issued, in that step or by that    *)
(* chain afterwards (the chain is gone).                                   *)
C5_MutationFailure ==
    [][ (trace'[1].e = "rejected" /\ trace'[1].api \in MutationOps) =>
            /\ Len(trace') = 2
            /\ trace'[2].e = "settle"
            /\ trace'[2].op = trace'[1].api
            /\ trace'[2].outcome = "rejected"
            /\ RequestsOf(trace'[2].done) = <<>>
            /\ StoreUnchanged
            /\ inflight' = inflight
            /\ \E m \in BagToSet(mutations) :
                   m.op = trace'[1].api /\ mutations' = mutations (-) SetToBag({m})
      ]_vars

\* acceptGroupInvite has just failed with fetched data in the caches
C5_Witness ==
    /\ Answered(trace, "rejected", "acceptGroupInvite")
    /\ isStateReady(STATE_KEY.GroupRooms)
    /\ isStateReady(STATE_KEY.GroupMembers)

(* C6: removeRoomFromGroup issues the remove-room call at once and nothing *)
(* else; when that call succeeds the summary request and then the rooms    *)
(* request are issued and the returned promise is fulfilled; when it fails *)
(* no request is issued and the returned promise is rejected.              *)
C6_RemoveRoomOrder ==
    LET op == "removeRoomFromGroup"
        call == Call(op, [groupId |-> GroupId, roomId |-> RoomId])
        summary == Request("getGroupSummary")
        rooms == Request("getGroupRooms")
    IN  /\ Invoked(trace, op) => Tail(trace) = <<call>>
        /\ \A m \in BagToSet(mutations) : m.op = op => m.done = <<call>>
        /\ Answered(trace, "resolved", op) =>
               Tail(trace) = <<summary, rooms,
                               Settle(op, "fulfilled", <<call, summary, rooms>>)>>
        /\ Answered(trace, "rejected", op) =>
               Tail(trace) = <<Settle(op, "rejected", <<call>>)>>

\* the remove-room call has just succeeded
C6_Witness ==
    /\ Answered(trace, "resolved", "removeRoomFromGroup")
    /\ inflight["getGroupSummary"] > 0
    /\ inflight["getGroupRooms"] > 0

(* C7: when the publicity call succeeds, setGroupPublicity invalidates the *)
(* flair cache for the current user's id and then issues the summary       *)
(* request; when it fails, neither happens.                                *)
C7_PublicityOrder ==
    LET op == "setGroupPublicity"
        call == Call(op, [groupId |-> GroupId, isPublished |-> TRUE])
        invalidate == [e |-> "invalidatePublicisedGroups", userId |-> UserId]
        summary == Request("getGroupSummary")
    IN  /\ Invoked(trace, op) => Tail(trace) = <<call>>
        /\ \A m \in BagToSet(mutations) : m.op = op => m.done = <<call>>
        /\ Answered(trace, "resolved", op) =>
               Tail(trace) = <<invalidate, summary,
                               Settle(op, "fulfilled", <<call, invalidate, summary>>)>>
        /\ Answered(trace, "rejected", op) =>
               Tail(trace) = <<Settle(op, "rejected", <<call>>)>>

\* the publicity call has just succeeded
C7_Witness ==
    /\ Answered(trace, "resolved", "setGroupPublicity")
    /\ inflight["getGroupSummary"] > 0

(* C8: registerListener(fn) emits exactly one "update", to the listeners   *)
(* with fn added, who read the state as it was before the call; the four   *)
(* fetch requests are issued after it, and the call changes no cache slice *)
(* or readiness flag.                                                      *)
C8_RegisterEmitsFirst ==
    [][ trace'[1].e = "registerListener" =>
            /\ trace'[2] = EmitUpdate(Append(listeners, trace'[1].fn), Store)
            /\ Emits(Tail(trace'), "update") = 1
            /\ Emits(Tail(trace'), "error") = 0
            /\ RequestsOf(Tail(trace')) = RequestsOf(SubSeq(trace', 3, Len(trace')))
            /\ Len(RequestsOf(Tail(trace'))) = Len(trace') - 2
            /\ {RequestsOf(Tail(trace'))[i] : i \in 1..(Len(trace') - 2)} = FetchApis
            /\ StoreUnchanged
      ]_vars

\* a second listener has just been registered on a store that holds fetched data
C8_Witness ==
    /\ trace[1].e = "registerListener"
    /\ Len(listeners) = 2
    /\ isStateReady(STATE_KEY.Summary)
    /\ getGroupRooms # <<>>

(* C9: the reaction to a successful fetch writes the cache and the         *)
(* readiness flag and then emits exactly one "update", to every registered *)
(* listener in registration order; a failed fetch emits no "update".       *)
C9_UpdateAfterWrite ==
    /\ (trace[1].e = "resolved" /\ trace[1].api \in FetchApis) =>
           /\ Tail(trace) = <<EmitUpdate(listeners, Store)>>
           /\ isStateReady(trace[1].key)
           /\ Cached(trace[1].key) = Payload(trace[1].key, trace[1].result)
    /\ (trace[1].e = "rejected" /\ trace[1].api \in FetchApis) =>
           Emits(Tail(trace), "update") = 0

\* a rooms fetch has just succeeded with two different listeners registered
C9_Witness ==
    /\ Answered(trace, "resolved", "getGroupRooms")
    /\ Len(listeners) = 2
    /\ listeners[1] # listeners[2]
    /\ getGroupRooms # <<>>

(* C10 as stated: a callback that has been unregistered and not registered *)
(* since is called by no "update" emission.                                *)
C10_Original ==
    \A i \in 1..Len(trace) :
        (trace[i].e = "emit" /\ trace[i].type = "update") =>
            \A j \in 1..Len(trace[i].to) : trace[i].to[j] \notin unregistered

(* C10, amended: unregisterListener(fn) removes one registration of fn (so *)
(* fn is called by later emissions once for each registration that is      *)
(* left, and not at all if it was registered at most once), keeps the      *)
(* other listeners in their order, emits nothing, and changes no cache     *)
(* slice, readiness flag or in-flight fetch.                               *)
C10_UnregisterRemovesOne ==
    [][ trace'[1].e = "unregisterListener" =>
            LET fn == trace'[1].fn
                n == Count(listeners, fn)
            IN  /\ Count(listeners', fn) = IF n = 0 THEN 0 ELSE n - 1
                /\ SelectSeq(listeners', LAMBDA c : c # fn)
                       = SelectSeq(listeners, LAMBDA c : c # fn)
                /\ Len(listeners') = Len(listeners) - (IF n = 0 THEN 0 ELSE 1)
                /\ Tail(trace') = <<>>
                /\ StoreUnchanged
                /\ inflight' = inflight
                /\ mutations' = mutations
      ]_vars

\* a callback registered twice has just been unregistered once and is still registered
C10_Witness ==
    /\ trace[1].e = "unregisterListener"
    /\ Count(listeners, trace[1].fn) = 1
    /\ trace[1].fn \in unregistered
    /\ Len(listeners) = 1

(* C11: when the backend call of a mutation succeeds, the returned promise *)
(* is fulfilled in the same reaction that issues the refresh requests,     *)
(* while those requests are still unanswered; a refresh that fails later   *)
(* only emits "error" and settles no promise.                              *)
C11_RefreshOutcomeIgnored ==
    /\ (trace[1].e = "resolved" /\ trace[1].api \in MutationOps) =>
           LET s == trace[Len(trace)]
           IN  /\ s.e = "settle"
               /\ s.op = trace[1].api
               /\ s.outcome = "fulfilled"
               /\ RequestsOf(trace) # <<>>
               /\ \A api \in FetchApis : inflight[api] >= Count(RequestsOf(trace), api)
               /\ Emits(trace, "error") = 0
    /\ (trace[1].e = "rejected" /\ trace[1].api \in FetchApis) =>
           /\ \A i \in 1..Len(trace) : trace[i].e # "settle"
           /\ Emits(trace, "error") = Len(trace) - 1

\* the summary refresh of a fulfilled mutation has just failed
C11_Witness ==
    /\ Answered(trace, "rejected", "getGroupSummary")
    /\ Tail(trace) = <<EmitError(trace[1].err)>>
    /\ mutations = EmptyBag

(* C12: constructing a store with an absent or empty groupId throws and    *)
(* constructing it with a non-empty one does not; either way no backend    *)
(* request is issued and nothing is emitted, and the store that is made    *)
(* has its four caches empty and no readiness flag set.                    *)
C12_Construction ==
    trace[1].e = "constructor" =>
        /\ trace[1].threw <=> (trace[1].groupId = <<>> \/ trace[1].groupId = <<"">>)
        /\ Tail(trace) = <<>>
        /\ Pending = 0
        /\ mutations = EmptyBag
        /\ ~trace[1].threw =>
               /\ \A k \in StateKeys : Cached(k) = <<>> /\ ~isStateReady(k)
               /\ trace[1].groupId = <<GroupId>>

\* a store has been constructed with the empty string as groupId
C12_Witness ==
    /\ trace[1].e = "constructor"
    /\ trace[1].groupId = <<"">>
    /\ trace[1].threw

(* C13: the reaction to the answer (success or failure) to a fetch request *)
(* of one slice leaves the caches and the readiness flags of the other     *)
(* three slices as they were, whatever other requests are in flight.       *)
C13_FetchFrame ==
    [][ (trace'[1].e \in {"resolved", "rejected"} /\ trace'[1].api \in FetchApis) =>
            \A k \in StateKeys \ {trace'[1].key} :
                /\ Cached(k)' = Cached(k)
                /\ isStateReady(k)' <=> isStateReady(k)
      ]_vars

\* the members request has been answered while the invited-members request of the
\* same call is in flight and the summary is already cached
C13_Witness ==
    /\ Answered(trace, "resolved", "getGroupUsers")
    /\ inflight["getGroupInvitedUsers"] > 0
    /\ inflight["getGroupRooms"] > 0
    /\ isStateReady(STATE_KEY.Summary)
    /\ ~isStateReady(STATE_KEY.GroupInvitedMembers)

\* the requests each mutation is to issue once its backend call has succeeded
RefreshTable(op) ==
    CASE op \in {"addRoomToGroup", "updateGroupRoomVisibility"} -> <<"getGroupRooms">>
      [] op = "removeRoomFromGroup" -> <<"getGroupSummary", "getGroupRooms">>
      [] op = "inviteUserToGroup" -> <<"getGroupUsers", "getGroupInvitedUsers">>
      [] op = "acceptGroupInvite" ->
             <<"getGroupRooms", "getGroupUsers", "getGroupInvitedUsers">>
      [] op \in {"addRoomToGroupSummary", "addUserToGroupSummary",
                 "removeRoomFromGroupSummary", "removeUserFromGroupSummary",
                 "setGroupPublicity"} -> <<"getGroupSummary">>

(* C14: the call of a mutation method issues no fetch request; the         *)
(* reaction to the success of its backend call issues exactly the requests *)
(* listed for the method, in the listed order, for this group.             *)
C14_RefreshTable ==
    /\ trace[1].e = "invoke" => RequestsOf(trace) = <<>>
    /\ (trace[1].e = "resolved" /\ trace[1].api \in MutationOps) =>
           /\ RequestsOf(Tail(trace)) = RefreshTable(trace[1].api)
           /\ \A i \in 1..Len(trace) :
                  trace[i].e = "request" => trace[i].groupId = GroupId

\* the accept-invite call has just succeeded and its three requests are in flight
C14_Witness ==
    /\ Answered(trace, "resolved", "acceptGroupInvite")
    /\ inflight["getGroupRooms"] > 0
    /\ inflight["getGroupUsers"] > 0
    /\ inflight["getGroupInvitedUsers"] > 0

\* once registerListener has returned, any of the four kinds of request can be the
\* next one answered
C15_AnyOrder ==
    trace[1].e = "registerListener" =>
        /\ ENABLED getGroupSummaryResolved
        /\ ENABLED getGroupRoomsResolved
        /\ ENABLED getGroupUsersResolved
        /\ ENABLED getGroupInvitedUsersResolved

(* C15: every call of registerListener issues exactly one request of each  *)
(* of the four kinds, and so adds one to the requests of each kind in      *)
(* flight, whatever listeners are registered, slices are ready or requests *)
(* are in flight already; any of the four can be the next one answered.    *)
C15_RegisterFetchesAll ==
    /\ [][ trace'[1].e = "registerListener" =>
                \A api \in FetchApis :
                    /\ Count(RequestsOf(trace'), api) = 1
                    /\ inflight'[api] = inflight[api] + 1
          ]_vars
    /\ []C15_AnyOrder

\* a second listener has just been registered while the summary is ready and a
\* rooms request of the first registration is still in flight
C15_Witness ==
    /\ trace[1].e = "registerListener"
    /\ Len(listeners) = 2
    /\ isStateReady(STATE_KEY.Summary)
    /\ inflight["getGroupRooms"] = 2

(* C16: when a fetch request has been answered successfully, the cache of  *)
(* its slice holds the answer to the last issued of the requests for that  *)
(* slice answered so far: its own answer, or the answer that a request     *)
(* issued after it had got before.                                         *)
C16_LaterIssuedWins ==
    (trace[1].e = "resolved" /\ trace[1].api \in FetchApis) =>
        Cached(trace[1].key) =
            Payload(trace[1].key,
                    IF trace[1].overtaken = <<>>
                    THEN trace[1].result
                    ELSE trace[1].overtaken[1])

\* a listener has been registered
Registered == listeners # <<>>

(* C17: once a listener is registered, the rooms, the members and the      *)
(* invited members become ready whether or not the request for the summary *)
(* is ever answered; if that request is answered in the end too, all four  *)
(* slices become ready.  A slice becomes ready only in the reaction to a   *)
(* successful answer to a request for it, which emits one "update"; so the *)
(* flag of a slice whose requests are never answered stays unset.          *)
C17_EventuallyReady ==
    /\ \A k \in StateKeys \ {STATE_KEY.Summary} : Registered ~> isStateReady(k)
    /\ WF_vars(getGroupSummaryResolved) => (Registered ~> (_ready = StateKeys))
    /\ [][ \A k \in StateKeys :
               (~isStateReady(k) /\ isStateReady(k)') =>
                   /\ trace'[1].e = "resolved"
                   /\ trace'[1].key = k
                   /\ Tail(trace') = <<EmitUpdate(listeners', Store')>>
          ]_vars

\* the three other slices are ready while the request for the summary is unanswered
C17_Witness ==
    /\ Registered
    /\ inflight["getGroupSummary"] > 0
    /\ _ready = StateKeys \ {STATE_KEY.Summary}

\* what a listener called by an emission read with the accessor of slice k
SeenCached(seen, k) ==
    CASE k = STATE_KEY.Summary -> seen.getSummary
      [] k = STATE_KEY.GroupRooms -> seen.getGroupRooms
      [] k = STATE_KEY.GroupMembers -> seen.getGroupMembers
      [] k = STATE_KEY.GroupInvitedMembers -> seen.getGroupInvitedMembers

(* C18: a slice whose readiness flag is unset holds its initial empty      *)
(* value, in every state between two reactions of the store and in every   *)
(* state a listener reads when an "update" calls it.                       *)
C18_UnreadyIsEmpty ==
    /\ \A k \in StateKeys : ~isStateReady(k) => Cached(k) = <<>>
    /\ \A i \in 1..Len(trace) :
           (trace[i].e = "emit" /\ trace[i].type = "update") =>
               \A k \in StateKeys \ trace[i].seen.isStateReady :
                   SeenCached(trace[i].seen, k) = <<>>

\* a listener has just read fetched members while the invited members are not ready
C18_Witness ==
    /\ Answered(trace, "resolved", "getGroupUsers")
    /\ listeners # <<>>
    /\ getGroupMembers # <<>>
    /\ ~isStateReady(STATE_KEY.GroupInvitedMembers)
    /\ ~isStateReady(STATE_KEY.Summary)

(* C19: getGroupPublicity() and isUserPrivileged() return null while the   *)
(* cached summary has no user record, as it has none before a summary      *)
(* fetch succeeds, and otherwise its is_publicised / is_privileged field;  *)
(* what they return is decided by the last successful summary fetch alone, *)
(* so a successful setGroupPublicity call changes nothing until the        *)
(* summary request it issues is answered.                                  *)
C19_PublicityFromSummary ==
    LET last == fetched[STATE_KEY.Summary]
        user == last # <<>> /\ "user" \in DOMAIN last[1]
    IN  /\ getGroupPublicity =
               IF "user" \in DOMAIN getSummary
               THEN <<getSummary.user.is_publicised>> ELSE <<>>
        /\ isUserPrivileged =
               IF "user" \in DOMAIN getSummary
               THEN <<getSummary.user.is_privileged>> ELSE <<>>
        /\ ~isStateReady(STATE_KEY.Summary) =>
               getGroupPublicity = <<>> /\ isUserPrivileged = <<>>
        /\ getGroupPublicity = IF user THEN <<last[1].user.is_publicised>> ELSE <<>>
        /\ isUserPrivileged = IF user THEN <<last[1].user.is_privileged>> ELSE <<>>

\* the publicity call has just succeeded, its summary request is unanswered and the
\* cached summary, fetched before, has no user record
C19_Witness ==
    /\ Answered(trace, "resolved", "setGroupPublicity")
    /\ inflight["getGroupSummary"] > 0
    /\ isStateReady(STATE_KEY.Summary)
    /\ getGroupPublicity = <<>>

====
